---- MODULE Spec2Model ----
(***************************************************************************)
(* Model of the TGI integration-test fixtures                              *)
(* (text-generation-inference/integration-tests/service_fixtures.py):      *)
(*   - docker_launcher, the generator-based context manager that builds    *)
(*     the image, runs the container, yields the handle and tears down;    *)
(*   - LauncherHandle.health / ContainerLauncherHandle._inner_health, the  *)
(*     bounded polling loop;                                               *)
(*   - generate_load_inner, the asyncio.gather fan-out.                    *)
(* The docker daemon, the container and the served endpoint are the        *)
(* environment: their answers are nondeterministic inputs.                 *)
(***************************************************************************)
EXTENDS Integers, Sequences, FiniteSets, TLC

\* ------------------------------------------------------------------ bounds
MaxTimeout == 2      \* health(timeout) is called with timeout in 1..MaxTimeout
MaxReqDur == 2       \* a readiness request takes 0..MaxReqDur time units
MaxN == 3            \* generate_load is called with n in 1..MaxN
MaxLaunches == 2     \* docker_launcher is entered at most MaxLaunches times in a run
MaxPorts == 2        \* random.randint draws from the first MaxPorts ports of its range
MaxLines == 1        \* the container writes at most MaxLines log lines
MaxPolls == 3        \* _inner_health is called at most MaxPolls times

\* ------------------------------------------------------- program constants
SleepSeconds == 1    \* time.sleep(1)
PortMin == 8000      \* random.randint(8000, 10_000)

\* ------------------------------------------------------------- exceptions
\* Exceptions of the docker SDK calls: NotFound, a subclass of APIError, and
\* ReadTimeout of the underlying HTTP call; all are subclasses of Exception.

\* isinstance(e, cls) for the classes named in the except clauses.
IsInstance(e, cls) ==
    CASE cls = "Exception" -> TRUE
      [] cls = "APIError"  -> e \in {"NotFound", "APIError"}
      [] cls = "NotFound"  -> e = "NotFound"
      [] OTHER             -> e = cls

\* Outcomes of the readiness request client.generate("test", max_new_tokens=1).
ClientErrors == {"ClientConnectorError", "ClientOSError", "ServerDisconnectedError",
                 "TimeoutError"}
RequestResults == {"ok"} \cup ClientErrors

\* ---------------------------------------------------------- docker daemon

\* The results container.stop() can have on a container in status cs.
StopResults(cs) ==
    IF cs = "absent" THEN {"NotFound"} ELSE {"ok", "APIError", "ReadTimeout"}
\* The results container.wait() can have.
WaitResults(cs) ==
    IF cs = "absent" THEN {"NotFound"} ELSE {"ok", "APIError", "ReadTimeout"}
\* The results container.remove(force=True) can have.
RemoveResults(cs) == IF cs = "absent" THEN {"NotFound"} ELSE {"ok", "APIError"}
\* The results image.remove(force=True) can have (tagged: the image exists).
ImageRemoveResults(tagged) == IF tagged THEN {"ok", "APIError"} ELSE {"NotFound"}
\* The results client.containers.run(..., name=container_name) can have: the
\* daemon refuses a name that is in use (409 Conflict, an APIError).
RunResults(cs) == IF cs = "absent" THEN {"ok", "APIError"} ELSE {"APIError"}

VARIABLES
    lpc,          \* position of docker_launcher / of the with statement
    isdir,        \* os.path.isdir(model_name_or_path)
    cstatus,      \* status of the container named container_name in the daemon
    image,        \* the local variable image: "None" or "built"
    tagged,       \* the derived tag {container_name}-img exists in the daemon
    started,      \* containers.run returned a container to this launch
    raised,       \* the exception that left the with statement, or "none"
    teardowns,    \* number of times the teardown section was entered
    pending,      \* exception in flight while the finally block runs, or "none"
    tdLog,        \* the teardown calls made, in order: <<call, result>>
    hpc,          \* position of health: idle | status | mark | request | sleep | done | returned
    timeout,      \* the argument of health
    i,            \* the loop variable of health
    hres,         \* outcome of health: none | Ready | Crashed | TimedOut | Fatal | NotFound
    hmsg,         \* the numbers the raised message carries: <<>> or <<seconds>>
    elapsed,      \* time units gone by since health began
    sleeps,       \* time.sleep(1) calls made by this health call
    queries,      \* _inner_health calls made by this health call
    reqLog,       \* results of the readiness requests of this health call
    crashedEarly, \* the status left running/created before timeout units had gone by
    ldpc,         \* position of generate_load_inner
    n,            \* the argument n of generate_load_inner
    futures,      \* per request: created | issued | ok | fail
    completed,    \* the order in which the requests completed
    gatherExc,    \* index of the first request that failed (0: none)
    lres,         \* what generate_load_inner gave the caller
    baseTagged,   \* the base image DOCKER_IMAGE exists in the daemon
    environ,      \* os.environ of the test process: variable name -> value
    token,        \* HF_TOKEN = huggingface_hub.get_token(): "None" or the token
    confs,        \* what each launch of the run computed (name, env, tag, ...)
    clk,          \* the wall clock read by time.time() and by the log driver
    clines,       \* the timestamps of the lines the container has written
    logSince,     \* self._log_since
    ppc,          \* position of _inner_health: idle | read
    pollOut,      \* container_output of the poll under way (line numbers)
    cseen,        \* container.status of the object containers.get returned, or "none"
    born,         \* the instant at which the handle was constructed
    forwarded,    \* the line numbers printed so far
    polls         \* _inner_health calls made so far

mainVars == <<lpc, isdir, cstatus, image, tagged, started, raised, teardowns, pending, tdLog,
          hpc, timeout, i, hres, hmsg, elapsed, sleeps, queries, reqLog, crashedEarly,
          ldpc, n, futures, completed, gatherExc, lres, baseTagged>>
cfgVars == <<environ, token, confs>>
logVars == <<clk, clines, logSince, ppc, pollOut, cseen, born, forwarded, polls>>
auxVars == <<cfgVars, logVars>>
vars == <<mainVars, cfgVars, logVars>>

launcherVars == <<lpc, isdir, image, started, raised, teardowns, pending, tdLog>>
daemonVars == <<cstatus, tagged>>
healthVars == <<hpc, timeout, i, hres, hmsg, elapsed, sleeps, queries, reqLog, crashedEarly>>
loadVars == <<ldpc, n, futures, completed, gatherExc, lres>>

NoLoad == [kind |-> "none", index |-> 0, items |-> <<>>]

\* No launch configuration computed, no log polled.
CfgIdle == environ = <<>> /\ token = "None" /\ confs = <<>>
LogIdle ==
    /\ clk = 0 /\ clines = <<>> /\ logSince = 0 /\ ppc = "idle"
    /\ pollOut = <<>> /\ cseen = "none" /\ born = 0 /\ forwarded = <<>> /\ polls = 0

\* The state of launcher, health and load before docker_launcher is entered
\* with the model a directory or not (dir) and the daemon holding a
\* container of the same name in status cs ("absent": none).
MainStart(pc, dir, cs) ==
    /\ lpc = pc
    /\ isdir = dir
    /\ cstatus = cs
    /\ baseTagged = TRUE
    /\ image = "None"
    /\ tagged = FALSE
    /\ started = FALSE
    /\ raised = "none"
    /\ teardowns = 0
    /\ pending = "none"
    /\ tdLog = <<>>
    /\ hpc = "idle"
    /\ timeout = 0
    /\ i = 0
    /\ hres = "none"
    /\ hmsg = <<>>
    /\ elapsed = 0
    /\ sleeps = 0
    /\ queries = 0
    /\ reqLog = <<>>
    /\ crashedEarly = FALSE
    /\ ldpc = "idle"
    /\ n = 0
    /\ futures = <<>>
    /\ completed = <<>>
    /\ gatherExc = 0
    /\ lres = NoLoad

Init ==
    \* a container of the same name left by an earlier run, or none
    /\ \E dir \in BOOLEAN, cs \in {"absent", "running", "exited"} :
          MainStart("cleanup_get", dir, cs)
    /\ CfgIdle
    /\ LogIdle

\* ------------------------------------------------- docker_launcher: start
\* except NotFound: pass (line 122)
CleanupCatches(e) == IsInstance(e, "NotFound")

\* container = client.containers.get(container_name)
CleanupGet ==
    /\ lpc = "cleanup_get"
    /\ lpc' = IF cstatus = "absent" THEN "provision" ELSE "cleanup_stop"
    /\ UNCHANGED <<isdir, image, started, raised, teardowns, pending, tdLog>>
    /\ UNCHANGED <<daemonVars, healthVars, loadVars>>
    /\ UNCHANGED <<auxVars, baseTagged>>

\* container.stop() on the stale container
CleanupStop ==
    /\ lpc = "cleanup_stop"
    /\ \E r \in StopResults(cstatus) :
        /\ cstatus' = IF r = "ok" THEN "exited" ELSE cstatus
        /\ lpc' = IF r = "ok" THEN "cleanup_wait"
                  ELSE IF CleanupCatches(r) THEN "provision" ELSE "raised"
        /\ raised' = IF r /= "ok" /\ ~CleanupCatches(r) THEN r ELSE raised
    /\ UNCHANGED <<isdir, image, started, teardowns, pending, tdLog, tagged>>
    /\ UNCHANGED <<healthVars, loadVars>>
    /\ UNCHANGED <<auxVars, baseTagged>>

\* container.wait() on the stale container
CleanupWait ==
    /\ lpc = "cleanup_wait"
    /\ \E r \in WaitResults(cstatus) :
        /\ lpc' = IF r = "ok" \/ CleanupCatches(r) THEN "provision" ELSE "raised"
        /\ raised' = IF r /= "ok" /\ ~CleanupCatches(r) THEN r ELSE raised
    /\ UNCHANGED <<isdir, image, started, teardowns, pending, tdLog>>
    /\ UNCHANGED <<daemonVars, healthVars, loadVars>>
    /\ UNCHANGED <<auxVars, baseTagged>>

\* if os.path.isdir(model_name_or_path): build the derived image, else use
\* DOCKER_IMAGE and image = None. A failing build raises out of the launcher.
Provision ==
    /\ lpc = "provision"
    /\ \/ /\ isdir
          /\ \E ok \in BOOLEAN :
               /\ image' = IF ok THEN "built" ELSE image
               /\ tagged' = IF ok THEN TRUE ELSE tagged
               /\ lpc' = IF ok THEN "run" ELSE "raised"
               /\ raised' = IF ok THEN raised ELSE "BuildError"
       \/ /\ ~isdir
          /\ image' = "None"
          /\ lpc' = "run"
          /\ UNCHANGED <<tagged, raised>>
    /\ UNCHANGED <<isdir, started, teardowns, pending, tdLog, cstatus>>
    /\ UNCHANGED <<healthVars, loadVars>>
    /\ UNCHANGED <<auxVars, baseTagged>>

AfterRunCleansImage(r) == IF r = "ok" THEN "construct" ELSE "td_image"

\* After containers.run: its exception leaves the launcher, else the
\* launcher goes on to construct and yield the handle (lines 171-184).
AfterRun(r) == IF r = "ok" THEN "construct" ELSE "raised"

\* container = client.containers.run(docker_tag, ..., name=container_name,
\* auto_remove=False, detach=True, ...) (lines 171-181).
Run ==
    /\ lpc = "run"
    /\ \E r \in RunResults(cstatus) :
        /\ cstatus' = IF r = "ok" THEN "created" ELSE cstatus
        /\ started' = (r = "ok")
        /\ lpc' = AfterRun(r)
        /\ raised' = IF r = "ok" THEN raised ELSE r
    /\ UNCHANGED <<isdir, image, teardowns, pending, tdLog, tagged>>
    /\ UNCHANGED <<healthVars, loadVars>>
    /\ UNCHANGED <<auxVars, baseTagged>>

\* yield ContainerLauncherHandle(service_name, client, container.name, port)
\* (line 184): the constructor reads self._log_since = time.time() (line 69),
\* then the handle is handed to the with body.
YieldHandle ==
    /\ lpc = "construct"
    /\ lpc' = "yielded"
    /\ logSince' = clk
    /\ born' = clk
    /\ clk' = clk + 1
    /\ UNCHANGED <<isdir, image, started, raised, teardowns, pending, tdLog>>
    /\ UNCHANGED <<daemonVars, healthVars, loadVars>>
    /\ UNCHANGED <<clines, ppc, pollOut, cseen, forwarded, polls>>
    /\ UNCHANGED <<cfgVars, baseTagged>>

\* ---------------------------------------------- docker_launcher: teardown
StopWaitCatchesNotFoundOnly(e) == IsInstance(e, "NotFound")

\* except Exception as e: (line 189), after container.stop / container.wait
StopWaitCatches(e) == IsInstance(e, "Exception")
\* except Exception as e: (line 196), after container.remove
RemoveCatches(e) == IsInstance(e, "Exception")
\* except NotFound: pass / except Exception as e: (lines 205-209)
ImageRemoveCatches(e) == IsInstance(e, "NotFound") \/ IsInstance(e, "Exception")

\* The caller goes on after health: the frame of the call (its locals and
\* what was observed of it) is gone, the outcome stays with the caller.
HealthFrameGone ==
    /\ hpc' = IF hpc = "done" THEN "returned" ELSE hpc
    /\ timeout' = 0 /\ i' = 0 /\ elapsed' = 0 /\ sleeps' = 0 /\ queries' = 0
    /\ reqLog' = <<>> /\ crashedEarly' = FALSE
    /\ UNCHANGED <<hres, hmsg>>

\* The caller has left the body: the list of requests and the result of
\* generate_load (lines 233-237) are out of reach; requests still in flight
\* get no further turn of the loop from this launch.
LoadFrameGone ==
    /\ ldpc' = IF ldpc = "done" THEN "returned" ELSE ldpc
    /\ n' = 0 /\ futures' = <<>> /\ completed' = <<>> /\ gatherExc' = 0
    /\ lres' = NoLoad

\* The caller has left the body: the handle, its watermark and what was
\* seen of the log are out of reach.
LogFrameGone ==
    /\ clk' = 0 /\ clines' = <<>> /\ logSince' = 0
    /\ born' = 0 /\ forwarded' = <<>> /\ polls' = 0
    /\ UNCHANGED <<ppc, pollOut, cseen>>

\* The with body ends normally: the generator is resumed after the yield.
BodyReturn ==
    /\ lpc = "yielded"
    /\ hpc \in {"idle", "done", "returned"} /\ hres \in {"none", "Ready"}
    /\ ldpc \in {"idle", "done"} /\ lres.kind /= "raised"
    /\ lpc' = "td_stop"
    /\ teardowns' = teardowns + 1
    /\ HealthFrameGone /\ LoadFrameGone /\ LogFrameGone
    /\ UNCHANGED <<isdir, image, started, raised, pending, tdLog>>
    /\ UNCHANGED daemonVars
    /\ UNCHANGED <<cfgVars, baseTagged>>

\* The error the body raises: the one health or generate_load raised, else
\* an error of the test itself.
BodyError ==
    IF hres \notin {"none", "Ready"} THEN hres
    ELSE IF lres.kind = "raised" THEN "RequestError"
    ELSE "AssertionError"

\* The with body raises: contextmanager.__exit__ throws the error into the
\* generator at the yield (line 184), which is in no try block, so the error
\* leaves the generator there and the with statement re-raises it.
BodyRaise ==
    /\ lpc = "yielded"
    /\ hpc \in {"idle", "done", "returned"}
    /\ ldpc \in {"idle", "done"}
    /\ lpc' = "raised"
    /\ raised' = BodyError
    /\ HealthFrameGone /\ LoadFrameGone /\ LogFrameGone
    /\ UNCHANGED <<isdir, image, started, teardowns, pending, tdLog>>
    /\ UNCHANGED daemonVars
    /\ UNCHANGED <<cfgVars, baseTagged>>

AfterStopAborts(r) == IF r = "ok" THEN "td_wait" ELSE "td_image"

\* After container.stop: container.wait follows in the same try block, so an
\* exception of stop skips it and control goes to the finally block (lines
\* 186-192).
AfterStop(r) == IF r = "ok" THEN "td_wait" ELSE "td_remove"

ImageToRemoveAlways(img) == IF img /= "None" THEN "derived" ELSE "base"

\* if image: image.remove(force=True) (lines 201-204): the image removed is
\* the one client.images.build returned; image is None for the base image.
ImageToRemove(img) == IF img /= "None" THEN "derived" ELSE "none"

\* container.stop(timeout=60), first statement of the try block (line 187)
TdStop ==
    /\ lpc = "td_stop"
    /\ \E r \in StopResults(cstatus) :
        /\ tdLog' = Append(tdLog, <<"stop", r>>)
        /\ cstatus' = IF r = "ok" THEN "exited" ELSE cstatus
        /\ lpc' = AfterStop(r)
        /\ pending' = IF r /= "ok" /\ ~StopWaitCatches(r) THEN r ELSE pending
    /\ UNCHANGED <<isdir, image, started, raised, teardowns, tagged>>
    /\ UNCHANGED <<healthVars, loadVars>>
    /\ UNCHANGED <<auxVars, baseTagged>>

\* container.wait(timeout=60) (line 188)
TdWait ==
    /\ lpc = "td_wait"
    /\ \E r \in WaitResults(cstatus) :
        /\ tdLog' = Append(tdLog, <<"wait", r>>)
        /\ lpc' = "td_remove"
        /\ pending' = IF r /= "ok" /\ ~StopWaitCatches(r) THEN r ELSE pending
    /\ UNCHANGED <<isdir, image, started, raised, teardowns>>
    /\ UNCHANGED <<daemonVars, healthVars, loadVars>>
    /\ UNCHANGED <<auxVars, baseTagged>>

\* finally: container.remove(force=True) (lines 192-198)
TdRemove ==
    /\ lpc = "td_remove"
    /\ \E r \in RemoveResults(cstatus) :
        /\ tdLog' = Append(tdLog, <<"remove", r>>)
        /\ cstatus' = IF r = "ok" THEN "absent" ELSE cstatus
        /\ IF r /= "ok" /\ ~RemoveCatches(r)
           THEN lpc' = "raised" /\ raised' = r /\ pending' = "none"
           ELSE lpc' = "td_image" /\ UNCHANGED <<raised, pending>>
    /\ UNCHANGED <<isdir, image, started, teardowns, tagged>>
    /\ UNCHANGED <<healthVars, loadVars>>
    /\ UNCHANGED <<auxVars, baseTagged>>

\* if image: image.remove(force=True) (lines 201-209); then the finally
\* block ends: an exception still in flight is re-raised, else the generator
\* returns and the with statement ends normally.
TdImage ==
    /\ lpc = "td_image"
    /\ \/ /\ ImageToRemove(image) /= "none"
          /\ \E r \in ImageRemoveResults(IF ImageToRemove(image) = "derived"
                                        THEN tagged ELSE baseTagged) :
               /\ tdLog' = Append(tdLog, <<"image", r>>)
               /\ tagged' = IF r = "ok" /\ ImageToRemove(image) = "derived"
                            THEN FALSE ELSE tagged
               /\ baseTagged' = IF r = "ok" /\ ImageToRemove(image) = "base"
                                THEN FALSE ELSE baseTagged
               /\ IF r /= "ok" /\ ~ImageRemoveCatches(r)
                  THEN lpc' = "raised" /\ raised' = r
                  ELSE IF pending /= "none"
                  THEN lpc' = "raised" /\ raised' = pending
                  ELSE lpc' = "exited" /\ UNCHANGED raised
       \/ /\ ImageToRemove(image) = "none"
          /\ UNCHANGED <<tdLog, tagged, baseTagged>>
          /\ IF pending /= "none"
             THEN lpc' = "raised" /\ raised' = pending
             ELSE lpc' = "exited" /\ UNCHANGED raised
    /\ pending' = "none"
    /\ UNCHANGED <<isdir, image, started, teardowns, cstatus>>
    /\ UNCHANGED <<healthVars, loadVars>>
    /\ UNCHANGED auxVars

InScope == lpc \in {"construct", "yielded", "td_stop", "td_wait", "td_remove", "td_image"}
\* containers.run has returned and the teardown has not begun.
Launched == lpc \in {"construct", "yielded"}
HealthRunning == hpc \in {"status", "mark", "request", "sleep"}
Alive(cs) == cs \in {"running", "created"}

\* ------------------------------------------------------------ environment
\* The container's status leaves running/created while health runs: noted
\* when fewer than timeout time units have gone by.
NoteCrash == crashedEarly \/ (HealthRunning /\ elapsed < timeout)

\* The container's process starts.
ContainerUp ==
    /\ Launched /\ cstatus = "created"
    /\ cstatus' = "running"
    /\ UNCHANGED <<launcherVars, tagged, healthVars, loadVars>>
    /\ UNCHANGED <<auxVars, baseTagged>>

\* The container's process dies.
ContainerCrash ==
    /\ Launched /\ Alive(cstatus)
    /\ cstatus' = "exited"
    /\ crashedEarly' = NoteCrash
    /\ UNCHANGED <<launcherVars, tagged, loadVars>>
    /\ UNCHANGED <<hpc, timeout, i, hres, hmsg, elapsed, sleeps, queries, reqLog>>
    /\ UNCHANGED <<auxVars, baseTagged>>

\* Somebody else removes the container (docker rm -f).
ExternalRemove ==
    /\ InScope /\ cstatus /= "absent"
    /\ cstatus' = "absent"
    /\ UNCHANGED <<launcherVars, tagged, healthVars, loadVars>>
    /\ UNCHANGED <<auxVars, baseTagged>>

\* Somebody else removes the derived image (docker rmi -f).
ExternalImageRemove ==
    /\ InScope /\ tagged
    /\ tagged' = FALSE
    /\ UNCHANGED <<launcherVars, cstatus, healthVars, loadVars>>
    /\ UNCHANGED <<auxVars, baseTagged>>

\* ------------------------------------------ _inner_health: log forwarding
\* container.logs(since=self._log_since): the lines (by number) whose
\* timestamp is not before since, in the order written (line 73).
Logs(lines, since) ==
    SelectSeq([k \in 1 .. Len(lines) |-> k], LAMBDA k : lines[k] >= since)

\* The container writes a log line, from the moment containers.run has
\* returned; the daemon stamps it with the clock. Every event has its own
\* instant.
LogWrite ==
    /\ Launched /\ Alive(cstatus)
    /\ Len(clines) < MaxLines
    /\ clines' = Append(clines, clk)
    /\ clk' = clk + 1
    /\ UNCHANGED <<logSince, ppc, pollOut, cseen, born, forwarded, polls>>
    /\ UNCHANGED <<mainVars, cfgVars>>

\* _inner_health called on its own, first half: container = ...containers.get
\* raises NotFound when the container is gone (line 72), else returns the
\* container with the status it has now;
\* container_output = container.logs(since=self._log_since) (line 73).
PollRead ==
    /\ lpc = "yielded" /\ hpc = "idle"
    /\ ppc = "idle" /\ polls < MaxPolls
    /\ IF cstatus = "absent"
       THEN /\ polls' = polls + 1
            /\ UNCHANGED <<pollOut, ppc, cseen>>
       ELSE /\ pollOut' = Logs(clines, logSince)
            /\ cseen' = cstatus
            /\ ppc' = "read"
            /\ UNCHANGED polls
    /\ UNCHANGED <<clk, clines, logSince, born, forwarded>>
    /\ UNCHANGED <<mainVars, cfgVars>>

\* second half: self._log_since = time.time(); print(container_output,
\* end="") when it is not empty; return (lines 74-77)
PollMark ==
    /\ ppc = "read"
    /\ logSince' = clk
    /\ clk' = clk + 1
    /\ forwarded' = forwarded \o pollOut
    /\ pollOut' = <<>>
    /\ cseen' = "none"
    /\ ppc' = "idle"
    /\ polls' = polls + 1
    /\ UNCHANGED <<clines, born>>
    /\ UNCHANGED <<mainVars, cfgVars>>

\* ----------------------------------------------------------------- health
RangeOneMore(t) == 0 .. t

\* for i in range(timeout): the values i takes (line 49)
Range(t) == 0 .. (t - 1)

\* return container.status in ["running", "created"] (line 77)
InnerHealthOk(cs) == cs \in {"running", "created"}

TransientErrorsConnectorOnly == {"ClientConnectorError"}

\* except (ClientConnectorError, ClientOSError, ServerDisconnectedError) (line 57)
TransientErrors == {"ClientConnectorError", "ClientOSError", "ServerDisconnectedError"}

HandlerRetriesAll(r) == IF r = "ok" THEN "return" ELSE "sleep"

\* What the try statement of lines 53-60 does with the result of the request.
Handler(r) ==
    IF r = "ok" THEN "return"
    ELSE IF r \in TransientErrors THEN "sleep"
    ELSE "fatal"

\* What a readiness request can end with: a service that is not running
\* refuses or drops the connection; a running one may also answer, or fail
\* in another way.
RequestOutcomes(cs) == IF cs = "running" THEN RequestResults ELSE TransientErrors

\* The number each message carries:
\* f"Service crashed after {i} seconds." (line 51)
CrashedSeconds(k) == <<k>>
\* f"Service failed to start after {i} seconds." (line 61)
TimedOutSeconds(k) == <<k>>
\* "Basic generation failed with: {e}" (line 60): a plain string, no number
FatalSeconds(k) == <<>>

\* health(timeout) is entered: assert timeout > 0 (line 48) and the loop
\* variable starts at 0 (line 49).
HealthEnter(t) ==
    /\ lpc = "yielded" /\ hpc = "idle"
    /\ t > 0                       \* assert timeout > 0
    /\ timeout' = t
    /\ i' = 0
    /\ hpc' = "status"
    /\ crashedEarly' = (cstatus = "exited")
    /\ UNCHANGED <<hres, hmsg, elapsed, sleeps, queries, reqLog>>
    /\ UNCHANGED <<launcherVars, daemonVars, loadVars>>
    /\ UNCHANGED <<auxVars, baseTagged>>

\* The caller awaits handle.health(t), first thing in the body.
HealthCall(t) == ldpc = "idle" /\ HealthEnter(t)

\* The caller awaits handle.health(t) after a generate_load that raised: the
\* other requests of the load can still be in flight (line 237).
HealthAfterLoad(t) == ldpc = "done" /\ lres.kind = "raised" /\ HealthEnter(t)

\* health calls self._inner_health() (line 50), first half: containers.get
\* raises NotFound when the container is gone (line 72), else returns the
\* container with the status it has now; container_output =
\* container.logs(since=self._log_since) (line 73).
HealthStatus ==
    /\ hpc = "status"
    /\ queries' = queries + 1
    /\ IF cstatus = "absent"
       THEN /\ hpc' = "done" /\ hres' = "NotFound" /\ hmsg' = <<>>
            /\ polls' = polls + 1
            /\ UNCHANGED <<pollOut, cseen>>
       ELSE /\ pollOut' = Logs(clines, logSince)
            /\ cseen' = cstatus
            /\ hpc' = "mark"
            /\ UNCHANGED <<hres, hmsg, polls>>
    /\ UNCHANGED <<clk, clines, logSince, ppc, born, forwarded>>
    /\ UNCHANGED <<timeout, i, elapsed, sleeps, reqLog, crashedEarly>>
    /\ UNCHANGED <<launcherVars, daemonVars, loadVars>>
    /\ UNCHANGED <<cfgVars, baseTagged>>

\* second half: self._log_since = time.time(); print(container_output,
\* end="") when it is not empty; return container.status in ["running",
\* "created"] (lines 74-77); if not self._inner_health(): raise
\* RuntimeError(crashed) (lines 50-51).
HealthMark ==
    /\ hpc = "mark"
    /\ logSince' = clk
    /\ clk' = clk + 1
    /\ forwarded' = forwarded \o pollOut
    /\ pollOut' = <<>>
    /\ cseen' = "none"
    /\ polls' = polls + 1
    /\ IF ~InnerHealthOk(cseen)
       THEN hpc' = "done" /\ hres' = "Crashed" /\ hmsg' = CrashedSeconds(i)
       ELSE hpc' = "request" /\ UNCHANGED <<hres, hmsg>>
    /\ UNCHANGED <<clines, ppc, born>>
    /\ UNCHANGED <<timeout, i, elapsed, sleeps, queries, reqLog, crashedEarly>>
    /\ UNCHANGED <<launcherVars, daemonVars, loadVars>>
    /\ UNCHANGED <<cfgVars, baseTagged>>

\* await self.client.generate("test", max_new_tokens=1) and its handlers
\* (lines 53-60); the request takes d time units.
HealthRequest ==
    /\ hpc = "request"
    /\ \E r \in RequestOutcomes(cstatus), d \in 0 .. MaxReqDur :
        /\ elapsed' = elapsed + d
        /\ reqLog' = Append(reqLog, r)
        /\ CASE Handler(r) = "return" ->
                  hpc' = "done" /\ hres' = "Ready" /\ UNCHANGED hmsg
             [] Handler(r) = "sleep" ->
                  hpc' = "sleep" /\ UNCHANGED <<hres, hmsg>>
             [] OTHER ->
                  hpc' = "done" /\ hres' = "Fatal" /\ hmsg' = FatalSeconds(i)
    /\ UNCHANGED <<timeout, i, sleeps, queries, crashedEarly>>
    /\ UNCHANGED <<launcherVars, daemonVars, loadVars>>
    /\ UNCHANGED <<auxVars, baseTagged>>

\* time.sleep(1), then the next iteration, or the end of the loop and
\* raise RuntimeError(failed to start) (lines 58, 49, 61); i keeps its last
\* value when the loop is exhausted.
HealthSleep ==
    /\ hpc = "sleep"
    /\ elapsed' = elapsed + SleepSeconds
    /\ sleeps' = sleeps + 1
    /\ IF i + 1 \in Range(timeout)
       THEN i' = i + 1 /\ hpc' = "status" /\ UNCHANGED <<hres, hmsg>>
       ELSE i' = i /\ hpc' = "done" /\ hres' = "TimedOut" /\ hmsg' = TimedOutSeconds(i)
    /\ UNCHANGED <<timeout, queries, reqLog, crashedEarly>>
    /\ UNCHANGED <<launcherVars, daemonVars, loadVars>>
    /\ UNCHANGED <<auxVars, baseTagged>>

\* ---------------------------------------------------------- generate_load
LoopFreeAsyncSleep == ldpc = "await" \/ hpc \in {"request", "sleep"}

\* The event loop runs other coroutines only while the caller's coroutine is
\* suspended in an await: await asyncio.gather (line 237) or await
\* self.client.generate (line 54). time.sleep(1) (line 58) and _inner_health
\* are synchronous: the loop does not run during them.
LoopFree == ldpc = "await" \/ hpc = "request"

GatherResultByCompletion(k, order) == order

SettledRetries(r) == IF r = "fail" THEN "created" ELSE r

\* The state a request ends in: its result; nothing around client.generate
\* submits it again (lines 233-237).
Settled(r) == r

\* asyncio.gather(*futures) without return_exceptions: the list of the
\* results in the order of the awaitables passed in (line 237).
GatherResult(k, order) == [j \in 1 .. k |-> j]

\* futures = [client.generate(...) for _ in range(n)]; asyncio.gather wraps
\* each coroutine in a task and the caller awaits the gathering future.
LoadCall(k) ==
    /\ lpc = "yielded" /\ ldpc = "idle"
    /\ hpc \in {"idle", "done"} /\ hres \in {"none", "Ready"}
    /\ n' = k
    /\ futures' = [j \in 1 .. k |-> "created"]
    /\ ldpc' = "await"
    /\ HealthFrameGone
    /\ UNCHANGED <<completed, gatherExc, lres>>
    /\ UNCHANGED <<launcherVars, daemonVars>>
    /\ UNCHANGED <<auxVars, baseTagged>>

\* The event loop starts the task of request j (tasks start in the order in
\* which gather scheduled them) and the request is sent.
ReqStart(j) ==
    /\ LoopFree
    /\ j \in 1 .. n /\ futures[j] = "created"
    /\ \A m \in 1 .. (j - 1) : futures[m] /= "created"
    /\ futures' = [futures EXCEPT ![j] = "issued"]
    /\ UNCHANGED <<ldpc, n, completed, gatherExc, lres>>
    /\ UNCHANGED <<launcherVars, daemonVars, healthVars>>
    /\ UNCHANGED <<auxVars, baseTagged>>

\* Request j completes; the first exception is set on the gathering future.
ReqDone(j) ==
    /\ LoopFree
    /\ j \in 1 .. n /\ futures[j] = "issued"
    /\ \E r \in (IF cstatus = "running" THEN {"ok", "fail"} ELSE {"fail"}) :
        /\ futures' = [futures EXCEPT ![j] = Settled(r)]
        /\ gatherExc' = IF r = "fail" /\ gatherExc = 0 THEN j ELSE gatherExc
    /\ completed' = Append(completed, j)
    /\ UNCHANGED <<ldpc, n, lres>>
    /\ UNCHANGED <<launcherVars, daemonVars, healthVars>>
    /\ UNCHANGED <<auxVars, baseTagged>>

\* return await asyncio.gather(*futures): resumes with the list when all
\* requests succeeded, or with the first exception as soon as one failed.
GatherResume ==
    /\ ldpc = "await"
    /\ \/ /\ gatherExc /= 0
          /\ lres' = [kind |-> "raised", index |-> gatherExc, items |-> <<>>]
       \/ /\ gatherExc = 0
          /\ \A j \in 1 .. n : futures[j] = "ok"
          /\ lres' = [kind |-> "list", index |-> 0, items |-> GatherResult(n, completed)]
    /\ ldpc' = "done"
    /\ UNCHANGED <<n, futures, completed, gatherExc>>
    /\ UNCHANGED <<launcherVars, daemonVars, healthVars>>
    /\ UNCHANGED <<auxVars, baseTagged>>

\* ---------------------------------------------------------- specification
Next ==
    \/ CleanupGet \/ CleanupStop \/ CleanupWait \/ Provision \/ Run \/ YieldHandle
    \/ BodyReturn \/ BodyRaise
    \/ TdStop \/ TdWait \/ TdRemove \/ TdImage
    \/ ContainerUp \/ ContainerCrash \/ ExternalRemove \/ ExternalImageRemove
    \/ LogWrite
    \/ \E t \in 1 .. MaxTimeout : HealthCall(t)
    \/ HealthStatus \/ HealthMark \/ HealthRequest \/ HealthSleep
    \/ \E k \in 1 .. MaxN : LoadCall(k)
    \/ \E j \in 1 .. MaxN : ReqStart(j)
    \/ \E j \in 1 .. MaxN : ReqDone(j)
    \/ GatherResume

Spec == Init /\ [][Next]_vars

\* --------------------------------------------------------- the event loop
\* A body that calls generate_load as soon as the handle is yielded, and
\* health when the load raised: docker_launcher is at containers.run of a
\* base-image launch, no container of the name exists.
InitLoop == MainStart("run", FALSE, "absent") /\ CfgIdle /\ LogIdle

NextLoop ==
    \/ Run \/ YieldHandle \/ ContainerUp
    \/ \E k \in 1 .. MaxN : LoadCall(k)
    \/ \E j \in 1 .. MaxN : ReqStart(j)
    \/ \E j \in 1 .. MaxN : ReqDone(j)
    \/ GatherResume
    \/ \E t \in 1 .. MaxTimeout : HealthAfterLoad(t)
    \/ HealthStatus \/ HealthMark \/ HealthRequest \/ HealthSleep

SpecLoop == InitLoop /\ [][NextLoop]_vars

\* ------------------------------------- docker_launcher: what a launch uses
\* The inputs: the service names and model references the tests pass, the
\* directories of the file system, the variables the process environment
\* may hold, the tokens huggingface_hub may return.
ServiceNames == {"gpt2", "llama"}
ModelRefs == {"gpt2", "/tmp/model"}
LocalDirs == {"/tmp/model"}
Tokens == {"None", "hf_secret"}

\* OPTIMUM_CACHE_REPO_ID = "optimum/neuron-testing-cache" (line 21)
OPTIMUM_CACHE_REPO_ID == "optimum/neuron-testing-cache"

\* DOCKER_IMAGE = os.getenv("DOCKER_IMAGE", "neuronx-tgi:latest") (line 22)
DOCKER_IMAGE(osenv) ==
    IF "DOCKER_IMAGE" \in DOMAIN osenv THEN osenv["DOCKER_IMAGE"] ELSE "neuronx-tgi:latest"

\* os.path.isdir(model_name_or_path) (line 135)
IsDir(m) == m \in LocalDirs

ContainerNameNoPort(s, p) == "tgi-tests-" \o s

\* container_name = f"tgi-tests-{service_name}-{port}" (line 116)
ContainerName(s, p) == "tgi-tests-" \o s \o "-" \o ToString(p)

\* docker_tag (lines 139, 162)
DockerTag(s, m, p) ==
    IF IsDir(m) THEN ContainerName(s, p) \o "-img" ELSE DOCKER_IMAGE(environ)

\* container_model_id (lines 150, 164)
ContainerModelId(m) == IF IsDir(m) THEN "/data/" \o m ELSE m

\* args = ["--model-id", container_model_id, "--env"]; if trust_remote_code:
\* args.append("--trust-remote-code") (lines 166-169)
Args(m, trc) ==
    <<"--model-id", ContainerModelId(m), "--env">>
        \o (IF trc THEN <<"--trust-remote-code">> ELSE <<>>)

ForwardedVarsAllHost == {"HF_BATCH_SIZE", "HF_SEQUENCE_LENGTH", "HF_AUTO_CAST_TYPE",
                         "HF_NUM_CORES", "PATH"}

\* for var in ["HF_BATCH_SIZE", "HF_SEQUENCE_LENGTH", "HF_AUTO_CAST_TYPE",
\* "HF_NUM_CORES"] (line 131)
ForwardedVars == {"HF_BATCH_SIZE", "HF_SEQUENCE_LENGTH", "HF_AUTO_CAST_TYPE",
                  "HF_NUM_CORES"}

\* The names the process environment may hold.
HostVars == {"HF_BATCH_SIZE", "HF_SEQUENCE_LENGTH", "HF_AUTO_CAST_TYPE",
             "HF_NUM_CORES", "PATH", "DOCKER_IMAGE"}

\* The value a variable of the process environment has when it is set.
HostValue(v) ==
    IF v = "DOCKER_IMAGE" THEN "custom:tag" ELSE IF v = "HF_BATCH_SIZE" THEN "2" ELSE "1"

\* env, as lines 125-133 build it from os.environ (osenv) and HF_TOKEN (tok)
Env(osenv, tok) ==
    LET fixed == {"LOG_LEVEL", "CUSTOM_CACHE_REPO"}
        auth == IF tok /= "None" THEN {"HUGGING_FACE_HUB_TOKEN", "HF_TOKEN"} ELSE {}
        tuning == {v \in ForwardedVars : v \in DOMAIN osenv}
    IN [k \in fixed \cup auth \cup tuning |->
           IF k = "LOG_LEVEL" THEN "info,text_generation_router=debug"
           ELSE IF k = "CUSTOM_CACHE_REPO" THEN OPTIMUM_CACHE_REPO_ID
           ELSE IF k \in auth THEN tok
           ELSE osenv[k]]

\* What one launch with service name s, model reference m, flag
\* trust_remote_code trc and drawn port p computes: the container name,
\* whether client.images.build is called, from which base image and with
\* which tag, the image and the command containers.run is given, and the
\* environment.
Conf(s, m, trc, p) ==
    [service_name |-> s, model |-> m, trust_remote_code |-> trc, port |-> p,
     container_name |-> ContainerName(s, p),
     built |-> IsDir(m),
     base |-> DOCKER_IMAGE(environ),
     docker_tag |-> DockerTag(s, m, p),
     model_id |-> ContainerModelId(m),
     args |-> Args(m, trc),
     env |-> Env(environ, token)]

\* docker_launcher(service_name, model_name_or_path, trust_remote_code) is
\* entered and draws port = random.randint(8000, 10_000) (lines 107-169).
Launch(s, m, trc, p) ==
    /\ Len(confs) < MaxLaunches
    /\ confs' = Append(confs, Conf(s, m, trc, p))
    /\ UNCHANGED <<environ, token, mainVars, logVars>>

\* A test process: its environment and token are fixed for the run; PATH is
\* always set.
InitConfig ==
    /\ MainStart("parked", FALSE, "absent")
    /\ LogIdle
    /\ environ \in {[v \in S \cup {"PATH"} |-> HostValue(v)] :
                       S \in SUBSET (HostVars \ {"PATH"})}
    /\ token \in Tokens
    /\ confs = <<>>

NextConfig ==
    \E s \in ServiceNames, m \in ModelRefs, trc \in BOOLEAN,
       p \in PortMin .. (PortMin + MaxPorts - 1) :
        Launch(s, m, trc, p)

SpecConfig == InitConfig /\ [][NextConfig]_vars

\* ------------------------------------------------ polls outside health
\* A body that polls the handle with _inner_health itself: docker_launcher
\* is at containers.run of a base-image launch, no container of the name
\* exists.
InitLogs == MainStart("run", FALSE, "absent") /\ CfgIdle /\ LogIdle

NextLogs ==
    \/ Run \/ YieldHandle \/ ContainerUp \/ ContainerCrash \/ ExternalRemove
    \/ LogWrite \/ PollRead \/ PollMark

SpecLogs == InitLogs /\ [][NextLogs]_vars

\* ================================================================= claims
\* The errors the specification calls transient: connection refused,
\* connection reset, server disconnected.
SpecTransient == {"ClientConnectorError", "ClientOSError", "ServerDisconnectedError"}
AllSpecTransient(log) == \A k \in 1 .. Len(log) : log[k] \in SpecTransient
Front(log) == SubSeq(log, 1, Len(log) - 1)
Last(log) == log[Len(log)]
ScopeLeft == lpc \in {"exited", "raised"}

\* C1: for every launch whose container was started, the teardown section
\* has run exactly once when the scope has been left, also when the body of
\* the scope raised.
C1_TeardownOnEveryExit == (started /\ ScopeLeft) => teardowns = 1

\* C2: generate_load always gives the caller a sequence of exactly n
\* outcomes, outcome j being that of request j, and never raises, whichever
\* requests fail.
C2_LoadReturnsAllOutcomes ==
    ldpc = "done" =>
        /\ lres.kind = "list"
        /\ Len(lres.items) = n
        /\ \A j \in 1 .. n : lres.items[j] = j

\* C3: when the container's status leaves running/created before timeout
\* time units have gone by, health ends Crashed, and before timeout time
\* units have gone by.
C3_CrashFailsFast ==
    (hpc = "done" /\ crashedEarly /\ cstatus = "exited") =>
        (hres = "Crashed" /\ elapsed < timeout)

\* C4: with a container that stays running/created and requests that all
\* fail with a transient error, health ends TimedOut, after exactly timeout
\* one-unit waits and no earlier, and with no other outcome.
C4_TimesOutAfterBudget ==
    (hpc \in {"status", "mark", "request", "sleep", "done"} /\ Alive(cstatus)
        /\ AllSpecTransient(reqLog)) =>
        /\ hpc = "done" =>
             /\ hres = "TimedOut"
             /\ sleeps = timeout
             /\ Len(reqLog) = timeout
             /\ elapsed >= timeout
        /\ hpc /= "done" => (hres = "none" /\ sleeps < timeout)

C4_Witness ==
    /\ hpc = "done" /\ hres = "TimedOut" /\ Alive(cstatus)
    /\ timeout = MaxTimeout /\ sleeps = MaxTimeout
    /\ AllSpecTransient(reqLog) /\ Len(reqLog) = MaxTimeout

\* C5: health ends no later than timeout time units after it began, and an
\* outcome TimedOut comes exactly at the expiry of that budget.
C5_HardBudget ==
    hpc = "done" =>
        /\ elapsed <= timeout
        /\ hres = "TimedOut" => elapsed = timeout

\* C6: the teardown section never lets an error out, whatever stop, wait,
\* remove and image removal raise; run against a container that is already
\* removed it ends normally and no container of that name is left.
C6_TeardownNeverRaises ==
    /\ teardowns > 0 => (lpc /= "raised" /\ pending = "none" /\ raised = "none")
    /\ (lpc = "exited" /\ \E k \in 1 .. Len(tdLog) :
            tdLog[k][1] \in {"stop", "wait", "remove"} /\ tdLog[k][2] = "NotFound")
        => cstatus = "absent"

C6_Witness ==
    /\ lpc = "exited"
    /\ tdLog = << <<"stop", "NotFound">>, <<"remove", "NotFound">>, <<"image", "NotFound">> >>

\* C7: whenever the caller holds the handle, a health check of the
\* container has completed successfully.
C7_HandleOnlyAfterReady == lpc = "yielded" => hres = "Ready"

\* C8: once a readiness request has failed with an error that is not
\* transient, health has ended Fatal in that iteration: no status query,
\* request or sleep follows, and the outcome is never TimedOut or Ready.
C8_FatalEndsAtOnce ==
    (Len(reqLog) > 0 /\ Last(reqLog) \notin SpecTransient \cup {"ok"}) =>
        /\ hpc = "done" /\ hres = "Fatal"
        /\ queries = Len(reqLog)
        /\ sleeps = Len(reqLog) - 1

C8_Witness ==
    /\ hpc = "done" /\ hres = "Fatal"
    /\ Len(reqLog) = 2 /\ reqLog[1] \in SpecTransient /\ reqLog[2] = "TimeoutError"

\* C9: with a container that stays running/created, k < timeout transient
\* failures followed by a success end health Ready right after the success,
\* with k sleeps and no error; transient failures alone do not end health
\* before timeout requests were made.
C9_TransientThenReady ==
    (Len(reqLog) > 0 /\ Alive(cstatus) /\ AllSpecTransient(Front(reqLog))) =>
        /\ Last(reqLog) = "ok" =>
             /\ hpc = "done" /\ hres = "Ready" /\ hmsg = <<>>
             /\ sleeps = Len(reqLog) - 1
             /\ Len(reqLog) <= timeout
        /\ (Last(reqLog) \in SpecTransient /\ Len(reqLog) < timeout) =>
             (hpc \in {"sleep", "status", "mark", "request"} /\ hres = "none")

C9_Witness ==
    /\ hpc = "done" /\ hres = "Ready" /\ Alive(cstatus)
    /\ Len(reqLog) = MaxTimeout /\ AllSpecTransient(Front(reqLog))
    /\ sleeps = MaxTimeout - 1

\* C10: every error of a failed health check carries the number of time
\* units waited, and the timeout error after budget timeout carries timeout.
C10_ErrorsCarryElapsed ==
    (hpc = "done" /\ hres \in {"Crashed", "TimedOut", "Fatal"}) =>
        /\ hmsg = <<sleeps>>
        /\ hres = "TimedOut" => hmsg = <<timeout>>

\* The calls the teardown section made, in order.
TdCalls == [k \in 1 .. Len(tdLog) |-> tdLog[k][1]]
ImageAttempts == Cardinality({k \in 1 .. Len(tdLog) : tdLog[k][1] = "image"})
InTeardown == lpc \in {"td_stop", "td_wait", "td_remove", "td_image"}

\* C13: in a teardown the removal of an image is attempted if and only if
\* the image was built by this launch, and then exactly once; the base image
\* is never removed.
C13_ImageRemovedIffDerived ==
    /\ baseTagged
    /\ ImageAttempts <= (IF image = "built" THEN 1 ELSE 0)
    /\ (teardowns > 0 /\ lpc = "exited") =>
           ImageAttempts = (IF image = "built" THEN 1 ELSE 0)
    /\ InTeardown => ImageAttempts = 0

C13_Witness ==
    /\ lpc = "exited" /\ image = "built" /\ baseTagged /\ ~tagged
    /\ tdLog = << <<"stop", "ok">>, <<"wait", "ok">>, <<"remove", "ok">>, <<"image", "ok">> >>

\* C14 (as stated): every teardown attempts stop, wait, remove container
\* and (if derived) remove image, in that order, whichever of them fail.
C14_EveryStepAttempted ==
    (teardowns > 0 /\ lpc = "exited") =>
        TdCalls = <<"stop", "wait", "remove">>
                  \o (IF image = "built" THEN <<"image">> ELSE <<>>)

\* C14 (amended): the order is stop, wait, remove container, remove image
\* (if derived); a failing stop skips wait and nothing else; removal of the
\* container is attempted whether stop or wait failed, and removal of the
\* image whether or not the removal of the container failed.
C14_TeardownOrder ==
    (teardowns > 0 /\ lpc = "exited") =>
        /\ Len(tdLog) >= 2
        /\ TdCalls = (IF tdLog[1][2] = "ok" THEN <<"stop", "wait", "remove">>
                                            ELSE <<"stop", "remove">>)
                     \o (IF image = "built" THEN <<"image">> ELSE <<>>)

C14_Witness ==
    /\ lpc = "exited"
    /\ tdLog = << <<"stop", "ok">>, <<"wait", "APIError">>, <<"remove", "APIError">>,
                  <<"image", "ok">> >>

\* C15: after the pre-run cleanup the container name is free, so that
\* containers.run under that name does not hit a name collision.
C15_StaleNameFreed == lpc = "run" => cstatus = "absent"

\* C19: when the derived image was built and containers.run then fails, the
\* error leaves docker_launcher, no handle is yielded, no teardown call is
\* made and the image stays tagged.
C19_BuiltImageLeftOnRunFailure ==
    (image = "built" /\ ~started /\ lpc /= "run") =>
        /\ lpc = "raised" /\ raised /= "none"
        /\ tagged
        /\ tdLog = <<>> /\ teardowns = 0
        /\ hpc = "idle" /\ ldpc = "idle"

C19_Witness ==
    /\ lpc = "raised" /\ raised = "APIError" /\ image = "built" /\ ~started
    /\ tagged /\ tdLog = <<>>

\* The variables the specification names for the container environment.
SpecTuning == {"HF_BATCH_SIZE", "HF_SEQUENCE_LENGTH", "HF_AUTO_CAST_TYPE", "HF_NUM_CORES"}
SpecAuth == {"HUGGING_FACE_HUB_TOKEN", "HF_TOKEN"}
SpecFixed == {"LOG_LEVEL", "CUSTOM_CACHE_REPO"}

\* C11: the container environment holds only keys of the policy; LOG_LEVEL
\* and CUSTOM_CACHE_REPO always; a tuning variable iff the process
\* environment sets it, with its value; both token names with the token iff
\* there is a token; nothing else of the host.
C11_EnvFollowsPolicy ==
    \A a \in 1 .. Len(confs) :
        LET e == confs[a].env
            K == DOMAIN confs[a].env
        IN /\ K \subseteq SpecFixed \cup SpecAuth \cup SpecTuning
           /\ SpecFixed \subseteq K
           /\ e["LOG_LEVEL"] = "info,text_generation_router=debug"
           /\ e["CUSTOM_CACHE_REPO"] = "optimum/neuron-testing-cache"
           /\ \A v \in SpecTuning :
                 /\ v \in K <=> v \in DOMAIN environ
                 /\ v \in K => e[v] = environ[v]
           /\ \A v \in SpecAuth :
                 /\ v \in K <=> token /= "None"
                 /\ v \in K => e[v] = token

C11_Witness ==
    /\ Len(confs) > 0 /\ token /= "None"
    /\ "PATH" \in DOMAIN environ
    /\ "HF_BATCH_SIZE" \in DOMAIN environ /\ environ["HF_BATCH_SIZE"] = "2"
    /\ "DOCKER_IMAGE" \in DOMAIN environ
    /\ "HF_NUM_CORES" \notin DOMAIN environ
    /\ DOMAIN confs[1].env = SpecFixed \cup SpecAuth \cup (SpecTuning \cap DOMAIN environ)

\* The base image tag: the one the process environment names, else the
\* default.
SpecBaseTag ==
    IF "DOCKER_IMAGE" \in DOMAIN environ THEN environ["DOCKER_IMAGE"] ELSE "neuronx-tgi:latest"

\* C12, image selection: a directory is built into an image tagged
\* tgi-tests-{service_name}-{port}-img, run from that tag with model id
\* /data/{path}; any other reference builds nothing and runs the base tag
\* with the reference itself.
ImageSelection(c) ==
    IF c.model \in {"/tmp/model"}
    THEN /\ c.built
         /\ c.docker_tag = "tgi-tests-" \o c.service_name \o "-" \o ToString(c.port) \o "-img"
         /\ SubSeq(c.args, 1, 2) = <<"--model-id", "/data/" \o c.model>>
    ELSE /\ ~c.built
         /\ c.docker_tag = SpecBaseTag
         /\ SubSeq(c.args, 1, 2) = <<"--model-id", c.model>>

\* C12 (as stated): image selection as above, and no two launches of a run
\* use the same derived tag.
C12_TagUniqueInRun ==
    /\ \A a \in 1 .. Len(confs) : ImageSelection(confs[a])
    /\ \A a, b \in 1 .. Len(confs) :
          (a /= b /\ confs[a].built /\ confs[b].built) =>
              confs[a].docker_tag /= confs[b].docker_tag

\* C12 (amended): image selection as above, and two launches use the same
\* derived tag only when they have the same service name and drew the same
\* port.
C12_TagPerServiceAndPort ==
    /\ \A a \in 1 .. Len(confs) : ImageSelection(confs[a])
    /\ \A a, b \in 1 .. Len(confs) :
          (confs[a].built /\ confs[b].built
              /\ confs[a].docker_tag = confs[b].docker_tag) =>
              (confs[a].service_name = confs[b].service_name
                  /\ confs[a].port = confs[b].port)

C12_Witness ==
    /\ Len(confs) = 2
    /\ "DOCKER_IMAGE" \in DOMAIN environ
    /\ confs[1].built /\ confs[2].built /\ confs[2].trust_remote_code
    /\ confs[1].service_name = confs[2].service_name
    /\ confs[1].port /= confs[2].port
    /\ confs[1].docker_tag /= confs[2].docker_tag

\* C16: over any sequence of polls every line the container wrote after the
\* handle was created is forwarded exactly once and in the container's
\* order: no line is forwarded twice, none is out of order, and once a poll
\* has moved the watermark past a line, that line has been forwarded.
C16_LogsForwardedOnce ==
    /\ \A a, b \in 1 .. Len(forwarded) : a < b => forwarded[a] < forwarded[b]
    /\ ppc = "idle" =>
          \A k \in 1 .. Len(clines) :
              (clines[k] >= born /\ clines[k] < logSince) =>
                  \E a \in 1 .. Len(forwarded) : forwarded[a] = k

\* C17: when all n requests succeeded, whatever the order in which they
\* completed, generate_load returns n responses and position j holds the
\* response of the j-th request submitted.
C17_ResultInSubmissionOrder ==
    (ldpc = "done" /\ lres.kind = "list") =>
        /\ Len(lres.items) = n
        /\ \A j \in 1 .. n : lres.items[j] = j

C17_Witness ==
    /\ ldpc = "done" /\ lres.kind = "list" /\ n = MaxN
    /\ completed[1] = MaxN /\ completed[MaxN] = 1

Rank(st) == IF st = "created" THEN 0 ELSE IF st = "issued" THEN 1 ELSE 2

\* C18: all n requests are submitted before the caller awaits any result
\* and exactly n are submitted; a request whose turn to start has come can
\* start whatever the state of the requests before it; a request never goes
\* back: once failed it stays failed and is not submitted again.
C18_FanOutNoRetry ==
    /\ [](ldpc \in {"await", "done"} =>
            /\ n >= 1 /\ Len(futures) = n
            /\ \A j \in 1 .. n :
                  (LoopFree /\ futures[j] = "created"
                      /\ \A m \in 1 .. (j - 1) : futures[m] /= "created")
                  => ENABLED ReqStart(j))
    /\ [][ldpc' \in {"await", "done"} => \A j \in 1 .. Len(futures) :
             /\ Len(futures') = Len(futures)
             /\ Rank(futures'[j]) >= Rank(futures[j])
             /\ futures[j] \in {"ok", "fail"} => futures'[j] = futures[j]]_vars

C18_Witness ==
    /\ ldpc = "await" /\ n = MaxN
    /\ \A j \in 1 .. n : futures[j] = "issued"

\* C20: from a transient failure of the readiness request until health is
\* back at its next await (through time.sleep(1) and the status query) no
\* other coroutine takes a step: requests of generate_load advance, during a
\* health call, only while health awaits its readiness request.
C20_SleepBlocksLoop ==
    [][(hpc \in {"status", "mark", "sleep"}) => UNCHANGED <<futures, completed, gatherExc>>]_vars

C20_Witness ==
    /\ hpc = "sleep" /\ sleeps = 1
    /\ \E j \in 1 .. n : futures[j] = "issued"
    /\ \E j \in 1 .. n : futures[j] \in {"ok", "fail"} /\ completed[Len(completed)] = j
                         /\ gatherExc /= j

====
